---- MODULE Spec2Model ----
(***************************************************************************)
(* Retrieval core of visa-main: rag_utils.py (corpus, embedding cache,     *)
(* FAISS index, prepare_rag_store, retrieve) and the parts of app.py that  *)
(* start the store and call retrieve.                                      *)
(*                                                                         *)
(* Files on disk are records with a "state" field; "torn" is a file that   *)
(* was opened for writing ("wb" truncates at once) and not yet completely  *)
(* written and closed.  A vector is modelled by one integer coordinate;    *)
(* the L2 distance of two vectors is the square of their difference.       *)
(***************************************************************************)
EXTENDS Integers, Sequences, FiniteSets, TLC

\* ------------------------------------------------------------------ bounds
MaxDocs == 2        \* longest corpus written by the environment
MaxTopK == 3        \* largest top_k handed to retrieve by a direct caller
MaxIndex == 3       \* largest index handed to retrieve by a direct caller

\* --------------------------------------------------------------- constants
DefaultTopK == 3    \* retrieve(..., top_k=3)

\* --------------------------------------------------------------- documents
D1 == [country |-> "Canada", category |-> "student", text |-> "enrol"]
D2 == [country |-> "Canada", category |-> "tourist", text |-> "ticket"]
D3 == [country |-> "Japan", category |-> "tourist", text |-> "funds"]
Docs == {D1, D2, D3}

Countries == {"Canada", "Japan"}
Categories == {"student", "tourist"}

\* sequences over S of length at most n
RECURSIVE SeqsUpTo(_, _)
SeqsUpTo(S, n) ==
  IF n = 0 THEN {<<>>}
  ELSE LET shorter == SeqsUpTo(S, n - 1)
       IN shorter \cup {Append(s, x) : s \in {t \in shorter : Len(t) = n - 1}, x \in S}

NoDup(s) == \A i, j \in 1..Len(s) : i # j => s[i] # s[j]

\* contents the corpus file can hold: a JSON array of distinct documents
DocSeqs == {s \in SeqsUpTo(Docs, MaxDocs) : NoDup(s)}

\* ----------------------------------------------------------- the provider
\* model.encode(text): deterministic, text -> vector
encode(text) ==
  CASE text = "enrol" -> 1
    [] text = "ticket" -> 4
    [] text = "funds" -> 6
    [] text = "Canada" -> 2
    [] text = "Japan" -> 5
    [] OTHER -> 9

Vecs == {encode(d.text) : d \in Docs}

\* squared Euclidean distance of IndexFlatL2
L2(a, b) == (a - b) * (a - b)

\* ------------------------------------------------------------------ files
CorpusMissing == [state |-> "missing", docs |-> <<>>]
CorpusMalformed == [state |-> "malformed", docs |-> <<>>]
CorpusOf(s) == [state |-> "ok", docs |-> s]

CacheAbsent == [state |-> "absent", embeddings |-> <<>>, rules |-> <<>>]
CacheTorn == [state |-> "torn", embeddings |-> <<>>, rules |-> <<>>]
CacheOf(e, r) == [state |-> "ok", embeddings |-> e, rules |-> r]

IndexAbsent == [state |-> "absent", vecs |-> <<>>]
IndexTorn == [state |-> "torn", vecs |-> <<>>]
IndexOf(v) == [state |-> "ok", vecs |-> v]

\* in-memory values that can be None
None == [present |-> FALSE, vecs |-> <<>>]
Some(v) == [present |-> TRUE, vecs |-> v]

VARIABLES
  corpus,       \* data/visa_rules.json
  cacheFile,    \* data/rules_embeddings.pkl
  indexFile,    \* data/rules_index.faiss
  pc,           \* "down", "prep", "saving", "build", "idxwriting", "ready", "crashed"
  host,         \* "app": app.py module startup; "direct": a caller of prepare_rag_store
  force,        \* force_rebuild of the call in progress
  path,         \* branch taken by prepare_rag_store: "none", "hit", "miss"
  loaded,       \* result of load_rules() inside prepare_rag_store
  l_rules,      \* local rules of prepare_rag_store (reassigned on a cache hit)
  l_emb,        \* local embeddings of prepare_rag_store
  encLog,       \* texts handed to model.encode by build_embeddings in this call
  replaced,     \* the index file as it was when write_index replaced it
  cacheSeen,    \* what load_cache met: "unread", "absent", "torn", "ok"
  indexSeen,    \* what load_faiss_index met: "unread", "absent", "torn", "ok"
  outcome,      \* of the call: "none", "returned", "raised", "uncaught"
  rules,        \* app.py global rules / first element of the caller's tuple
  rules_rag,    \* rules returned by prepare_rag_store
  embeddings,   \* returned embeddings (None when the app degraded)
  index,        \* returned index (None when the app degraded)
  model,        \* TRUE when a provider handle is held
  last,         \* (rules, embeddings, force) of the most recent return
  clean,        \* no corpus edit, artefact deletion or failed call since that return
  repeat,       \* the return before this one, when nothing happened in between
  r_src,        \* who called retrieve: "none", "pending", "app", "direct"
  r_query,      \* arguments and results of the last retrieve call
  r_rules,
  r_index,
  r_topk,
  r_text,       \* the text model.encode was given ("" when it was not called)
  r_labels,
  r_result,
  r_encCalls,
  r_searchCalls,
  r_filtered,   \* what the caller's filter kept of r_result
  prompt        \* what format_prompt built in process_application

files == <<corpus, cacheFile, indexFile>>
locals == <<path, loaded, l_rules, l_emb, encLog, replaced, cacheSeen, indexSeen>>
held == <<outcome, rules, rules_rag, embeddings, index, model>>
hist == <<last, clean, repeat>>
storeVars == <<files, pc, host, force, locals, held, hist>>
retrVars == <<r_src, r_query, r_rules, r_index, r_topk, r_text, r_labels, r_result,
              r_encCalls, r_searchCalls, r_filtered, prompt>>
vars == <<storeVars, retrVars>>

\* ------------------------------------------------------- rag_utils helpers
\* load_rules(): open + json.load raise on a missing or malformed file
load_rules_raises(c) == c.state # "ok"

\* the texts build_embeddings hands to model.encode, in the order of the loop
encoded_texts(rs) == [i \in 1..Len(rs) |-> rs[i].text]

\* variant: the loop stops one rule short
build_embeddings_drop_last(rs) == [i \in 1..(Len(rs) - 1) |-> encode(rs[i].text)]

\* build_embeddings(rules, model): one encode per rule, stacked in rule order
build_embeddings(rs) == [i \in 1..Len(rs) |-> encode(rs[i].text)]

\* np.vstack([]) raises ValueError: an empty rule list cannot be embedded
build_embeddings_raises(rs) == rs = <<>>

\* load_cache(): None when the file does not exist, else pickle.load, which
\* raises on a file that is not a complete pickle
load_cache_raises(f) == f.state = "torn"

\* variant: "if cache and force_rebuild"
cache_hit_inverted(f, force_rebuild) == force_rebuild /\ f.state = "ok"

\* "if cache and not force_rebuild": the loaded dict is non-empty, hence true
cache_hit(f, force_rebuild) == ~force_rebuild /\ f.state = "ok"

\* load_faiss_index(): None when the file does not exist, else
\* faiss.read_index, which raises on a file it cannot read
load_faiss_index_raises(f) == f.state = "torn"

\* what the returned tuple looks like; NoRet before any return
NoRet == [present |-> FALSE, rules |-> <<>>, embeddings |-> <<>>, force |-> FALSE]
RetOf(rr, e, f) == [present |-> TRUE, rules |-> rr, embeddings |-> e, force |-> f]

\* app.py 36-37: the app keeps its own rules unless the store returned more
app_rules(own, rr) == IF Len(rr) > Len(own) THEN rr ELSE own

\* ------------------------------------------------------------------- Init
NoQuery == <<>>
NoPrompt == [kind |-> "none", context |-> <<>>]

StoreInit ==
  /\ corpus \in {CorpusMissing} \cup {CorpusOf(s) : s \in DocSeqs}
  /\ cacheFile = CacheAbsent
  /\ indexFile = IndexAbsent
  /\ pc = "down"
  /\ host = "none"
  /\ force = FALSE
  /\ path = "none"
  /\ loaded = <<>>
  /\ l_rules = <<>>
  /\ l_emb = <<>>
  /\ encLog = <<>>
  /\ replaced = IndexAbsent
  /\ cacheSeen = "unread"
  /\ indexSeen = "unread"
  /\ outcome = "none"
  /\ rules = <<>>
  /\ rules_rag = <<>>
  /\ embeddings = None
  /\ index = None
  /\ model = FALSE
  /\ last = NoRet
  /\ clean = FALSE
  /\ repeat = NoRet

RetrIdle ==
  /\ r_src = "none"
  /\ r_query = NoQuery
  /\ r_rules = <<>>
  /\ r_index = None
  /\ r_topk = DefaultTopK
  /\ r_text = ""
  /\ r_labels = <<>>
  /\ r_result = <<>>
  /\ r_encCalls = 0
  /\ r_searchCalls = 0
  /\ r_filtered = <<>>
  /\ prompt = NoPrompt

\* a new process has made no retrieve call yet
RetrReset ==
  /\ r_src' = "none"
  /\ r_query' = NoQuery
  /\ r_rules' = <<>>
  /\ r_index' = None
  /\ r_topk' = DefaultTopK
  /\ r_text' = ""
  /\ r_labels' = <<>>
  /\ r_result' = <<>>
  /\ r_encCalls' = 0
  /\ r_searchCalls' = 0
  /\ r_filtered' = <<>>
  /\ prompt' = NoPrompt

Init == StoreInit /\ RetrIdle

\* ------------------------------------------------------------ environment
\* The environment acts on the files between processes.  No code reads a file
\* after load_faiss_index, so an edit or a deletion made later in the life of
\* a process is the same edit made after the process has ended.  (An edit
\* between the app's own read of the corpus and prepare_rag_store's read a
\* moment later is left out.)

\* the corpus file is edited, replaced, removed or damaged
EditCorpus(c) ==
  /\ pc = "down"
  /\ c # corpus
  /\ corpus' = c
  /\ clean' = FALSE
  /\ last' = NoRet
  /\ UNCHANGED <<cacheFile, indexFile, pc, host, force, locals, held, repeat, retrVars>>

\* the cache artefact is deleted
DeleteCache ==
  /\ pc = "down"
  /\ cacheFile.state # "absent"
  /\ cacheFile' = CacheAbsent
  /\ clean' = FALSE
  /\ last' = NoRet
  /\ UNCHANGED <<corpus, indexFile, pc, host, force, locals, held, repeat, retrVars>>

\* the index artefact is deleted
DeleteIndex ==
  /\ pc = "down"
  /\ indexFile.state # "absent"
  /\ indexFile' = IndexAbsent
  /\ clean' = FALSE
  /\ last' = NoRet
  /\ UNCHANGED <<corpus, cacheFile, pc, host, force, locals, held, repeat, retrVars>>

\* the process ends: killed in the middle of a call, or shut down when ready
Exit ==
  /\ pc \in {"prep", "saving", "build", "idxwriting", "ready", "crashed"}
  /\ pc' = "down"
  /\ host' = "none"
  /\ force' = FALSE
  /\ path' = "none"
  /\ loaded' = <<>>
  /\ l_rules' = <<>>
  /\ l_emb' = <<>>
  /\ encLog' = <<>>
  /\ replaced' = IndexAbsent
  /\ cacheSeen' = "unread"
  /\ indexSeen' = "unread"
  /\ outcome' = "none"
  /\ rules' = <<>>
  /\ rules_rag' = <<>>
  /\ embeddings' = None
  /\ index' = None
  /\ model' = FALSE
  /\ repeat' = NoRet
  /\ clean' = (clean /\ pc = "ready")
  /\ last' = IF clean /\ pc = "ready" THEN last ELSE NoRet
  /\ UNCHANGED files
  /\ RetrReset

\* ---------------------------------------------------------------- startup
\* app.py 24-31: the module reads the corpus itself; only FileNotFoundError
\* is caught, a malformed file ends the process with json.JSONDecodeError.
\* app.py 35 then calls prepare_rag_store() with force_rebuild left False.
StartApp ==
  /\ pc = "down"
  /\ host' = "app"
  /\ force' = FALSE
  /\ rules' = IF corpus.state = "ok" THEN corpus.docs ELSE <<>>
  /\ pc' = IF corpus.state = "malformed" THEN "crashed" ELSE "prep"
  /\ outcome' = IF corpus.state = "malformed" THEN "uncaught" ELSE "none"
  /\ UNCHANGED <<files, locals, rules_rag, embeddings, index, model, hist, retrVars>>

\* any other caller: rules, embeddings, index, model = prepare_rag_store(f)
CallDirect(f) ==
  /\ pc = "down"
  /\ host' = "direct"
  /\ force' = f
  /\ pc' = "prep"
  /\ UNCHANGED <<files, locals, held, hist, retrVars>>

\* ------------------------------------------------------ prepare_rag_store
\* prepare_rag_store returns (rr, e, iv, model) to its caller.  The app keeps
\* its own rules unless the store returned more of them (app.py 35-38).
Returned(rr, e, iv) ==
  /\ rules_rag' = rr
  /\ embeddings' = Some(e)
  /\ index' = Some(iv)
  /\ model' = TRUE
  /\ rules' = IF host = "app" THEN app_rules(rules, rr) ELSE rr
  /\ outcome' = "returned"
  /\ pc' = "ready"
  /\ repeat' = IF clean THEN last ELSE NoRet
  /\ last' = RetOf(rr, e, force)
  /\ clean' = TRUE

\* an exception leaves prepare_rag_store and nothing in app.py catches it
RaisedUncaught ==
  /\ rules_rag' = <<>>
  /\ embeddings' = None
  /\ index' = None
  /\ model' = FALSE
  /\ rules' = IF host = "app" THEN rules ELSE <<>>
  /\ outcome' = "raised"
  /\ pc' = "crashed"
  /\ repeat' = NoRet
  /\ clean' = FALSE
  /\ last' = NoRet

\* an exception leaves prepare_rag_store.  app.py 39-41 catches it and goes
\* on with embeddings, index, model = None; any other caller gets it raised.
Raised ==
  /\ rules_rag' = <<>>
  /\ embeddings' = None
  /\ index' = None
  /\ model' = FALSE
  /\ rules' = IF host = "app" THEN rules ELSE <<>>
  /\ outcome' = "raised"
  /\ pc' = IF host = "app" THEN "ready" ELSE "crashed"
  /\ repeat' = NoRet
  /\ clean' = FALSE
  /\ last' = NoRet

\* line 50 raises: the pretrained model cannot be loaded
PrepareModelFails ==
  /\ pc = "prep"
  /\ Raised
  /\ UNCHANGED <<files, host, force, locals, retrVars>>

\* lines 51-52 raise: load_rules fails, or pickle.load fails on the cache
PrepareLoadFails ==
  /\ pc = "prep"
  /\ \/ load_rules_raises(corpus)
     \/ ~force /\ load_cache_raises(cacheFile)
  /\ loaded' = IF load_rules_raises(corpus) THEN <<>> ELSE corpus.docs
  /\ cacheSeen' = IF load_rules_raises(corpus) THEN "unread" ELSE "torn"
  /\ Raised
  /\ UNCHANGED <<files, host, force, path, l_rules, l_emb, encLog, replaced, indexSeen,
                 retrVars>>

\* lines 53-56, cache hit with a persisted index: the index is served as read
PrepareHit ==
  /\ pc = "prep"
  /\ ~load_rules_raises(corpus)
  /\ cache_hit(cacheFile, force)
  /\ indexFile.state # "absent"
  /\ loaded' = corpus.docs
  /\ path' = "hit"
  /\ l_rules' = cacheFile.rules
  /\ l_emb' = cacheFile.embeddings
  /\ cacheSeen' = "ok"
  /\ indexSeen' = indexFile.state
  /\ IF load_faiss_index_raises(indexFile)
       THEN Raised
       ELSE Returned(cacheFile.rules, cacheFile.embeddings, indexFile.vecs)
  /\ UNCHANGED <<files, host, force, encLog, replaced, retrVars>>

\* variant: the hit path saves the cache again before building the index
PrepareHitNoIndex_resaves ==
  /\ pc = "prep"
  /\ ~load_rules_raises(corpus)
  /\ cache_hit(cacheFile, force)
  /\ indexFile.state = "absent"
  /\ loaded' = corpus.docs
  /\ path' = "hit"
  /\ l_rules' = cacheFile.rules
  /\ l_emb' = cacheFile.embeddings
  /\ cacheSeen' = "ok"
  /\ indexSeen' = "absent"
  /\ cacheFile' = CacheTorn
  /\ pc' = "saving"
  /\ UNCHANGED <<corpus, indexFile, host, force, encLog, replaced, held, hist, retrVars>>

\* lines 53-58, cache hit without a persisted index: build_faiss_index next
PrepareHitNoIndex ==
  /\ pc = "prep"
  /\ ~load_rules_raises(corpus)
  /\ cache_hit(cacheFile, force)
  /\ indexFile.state = "absent"
  /\ loaded' = corpus.docs
  /\ path' = "hit"
  /\ l_rules' = cacheFile.rules
  /\ l_emb' = cacheFile.embeddings
  /\ cacheSeen' = "ok"
  /\ indexSeen' = "absent"
  /\ pc' = "build"
  /\ UNCHANGED <<files, host, force, encLog, replaced, held, hist, retrVars>>

\* lines 59-61, no cache or force_rebuild: embed every rule, then save_cache
\* opens the cache file for writing, which truncates it
PrepareMiss ==
  /\ pc = "prep"
  /\ ~load_rules_raises(corpus)
  /\ force \/ ~load_cache_raises(cacheFile)
  /\ ~cache_hit(cacheFile, force)
  /\ loaded' = corpus.docs
  /\ path' = "miss"
  /\ l_rules' = corpus.docs
  /\ IF build_embeddings_raises(corpus.docs)
       THEN /\ Raised
            /\ UNCHANGED <<cacheFile, l_emb, encLog>>
       ELSE /\ encLog' = encoded_texts(corpus.docs)
            /\ l_emb' = build_embeddings(corpus.docs)
            /\ cacheFile' = CacheTorn
            /\ pc' = "saving"
            /\ UNCHANGED <<held, hist>>
  /\ cacheSeen' = IF force THEN "unread" ELSE "absent"
  /\ UNCHANGED <<corpus, indexFile, host, force, replaced, indexSeen, retrVars>>

\* save_cache, lines 28-29: pickle.dump completes and the file is closed
save_cache(e, rs) == CacheOf(e, rs)

SaveCacheDone ==
  /\ pc = "saving"
  /\ cacheFile' = save_cache(l_emb, l_rules)
  /\ pc' = "build"
  /\ UNCHANGED <<corpus, indexFile, host, force, locals, held, hist, retrVars>>

\* build_faiss_index, lines 38-41: the index is filled in memory and
\* faiss.write_index opens the index file for writing, which truncates it
IndexOpen ==
  /\ pc = "build"
  /\ replaced' = indexFile
  /\ indexFile' = IndexTorn
  /\ pc' = "idxwriting"
  /\ UNCHANGED <<corpus, cacheFile, host, force, path, loaded, l_rules, l_emb, encLog,
                 cacheSeen, indexSeen, held, hist, retrVars>>

\* IndexFlatL2 + add: the index holds the vectors, in matrix order
build_faiss_index(e) == e

\* faiss.write_index completes; prepare_rag_store returns (line 63)
IndexDone ==
  /\ pc = "idxwriting"
  /\ indexFile' = IndexOf(build_faiss_index(l_emb))
  /\ Returned(l_rules, l_emb, build_faiss_index(l_emb))
  /\ UNCHANGED <<corpus, cacheFile, host, force, locals, retrVars>>

\* ---------------------------------------------------------------- retrieve
Min(a, b) == IF a < b THEN a ELSE b

\* a query is the dict app.py builds, kept as its ordered (key, value) items
QueryOf(country, category, answers) ==
  <<<<"country", country>>, <<"category", category>>, <<"answers", answers>>>>

\* model.encode([query]) with a dict: sentence-transformers tokenizes the value
\* of the dict's first item
QueryText(query) == query[1][2]

\* the m nearest of the positions in P (0-based), nearest first; positions at
\* the same distance may come in either order
RECURSIVE NearestFirst(_, _, _, _)
NearestFirst(vecs, qv, P, m) ==
  IF m = 0 \/ P = {} THEN {<<>>}
  ELSE LET best == {p \in P : \A o \in P : L2(vecs[p + 1], qv) <= L2(vecs[o + 1], qv)}
       IN UNION {{<<p>> \o rest : rest \in NearestFirst(vecs, qv, P \ {p}, m - 1)} :
                 p \in best}

\* index.search(q, k) of IndexFlatL2, row I[0]: k labels, the min(k, ntotal)
\* nearest positions by ascending distance, then -1 for the places not filled
IndexSearch(vecs, qv, k) ==
  LET n == Len(vecs)
      m == Min(k, n)
  IN {near \o [i \in 1..(k - m) |-> -1] : near \in NearestFirst(vecs, qv, 0..(n - 1), m)}

\* variant: no range test, so a label of -1 is Python's rules[-1], the last rule
RECURSIVE Lookup_unchecked(_, _)
Lookup_unchecked(rs, I) ==
  IF I = <<>> THEN <<>>
  ELSE IF Head(I) < 0
       THEN <<rs[Len(rs) + 1 + Head(I)]>> \o Lookup_unchecked(rs, Tail(I))
       ELSE <<rs[Head(I) + 1]>> \o Lookup_unchecked(rs, Tail(I))

\* variant: a position that comes again later in the labels is dropped
RECURSIVE Lookup_dedup(_, _)
Lookup_dedup(rs, I) ==
  IF I = <<>> THEN <<>>
  ELSE IF /\ 0 <= Head(I) /\ Head(I) < Len(rs)
          /\ \A i \in 2..Len(I) : I[i] # Head(I)
       THEN <<rs[Head(I) + 1]>> \o Lookup_dedup(rs, Tail(I))
       ELSE Lookup_dedup(rs, Tail(I))

\* lines 70-73: the rules at the labels that are positions of rules
RECURSIVE Lookup(_, _)
Lookup(rs, I) ==
  IF I = <<>> THEN <<>>
  ELSE IF 0 <= Head(I) /\ Head(I) < Len(rs)
       THEN <<rs[Head(I) + 1]>> \o Lookup(rs, Tail(I))
       ELSE Lookup(rs, Tail(I))

\* variant: "if not rules" only; with no index the query is encoded before
\* index.search fails on None
retrieve_no_index_check(query, rs, idx, mdl, top_k) ==
  IF rs = <<>>
    THEN {[result |-> <<>>, labels |-> <<>>, text |-> "", encCalls |-> 0, searchCalls |-> 0]}
    ELSE IF ~idx.present
      THEN {[result |-> <<>>, labels |-> <<>>, text |-> QueryText(query), encCalls |-> 1,
             searchCalls |-> 0]}
      ELSE {[result |-> Lookup(rs, I), labels |-> I, text |-> QueryText(query),
           encCalls |-> 1, searchCalls |-> 1] :
            I \in IndexSearch(idx.vecs, encode(QueryText(query)), top_k)}

\* retrieve(query, rules, index, model, top_k): the possible outcomes
retrieve(query, rs, idx, mdl, top_k) ==
  IF rs = <<>> \/ ~idx.present
    THEN {[result |-> <<>>, labels |-> <<>>, text |-> "", encCalls |-> 0, searchCalls |-> 0]}
    ELSE {[result |-> Lookup(rs, I), labels |-> I, text |-> QueryText(query),
           encCalls |-> 1, searchCalls |-> 1] :
          I \in IndexSearch(idx.vecs, encode(QueryText(query)), top_k)}

\* ------------------------------------------------------------------ app.py
\* str.lower() on the strings of the model
Lower(s) ==
  CASE s = "Canada" -> "canada"
    [] s = "Japan" -> "japan"
    [] s = "Student" -> "student"
    [] s = "Tourist" -> "tourist"
    [] OTHER -> s

\* build_questions: no document of the model carries requirements, so the
\* general questions are asked; their keys, in order
questions ==
  <<"passport_valid", "financial_proof", "travel_history", "employment_status",
    "purpose_clear", "ties_home", "criminal_record", "health_insurance",
    "accommodation", "return_ticket">>

\* lines 203-208: answers[key] and answers[key_detail] for every answered question
RECURSIVE answer_items(_, _)
answer_items(qa, i) ==
  IF i > Len(qa) THEN <<>>
  ELSE IF i <= Len(questions) /\ qa[i] # ""
       THEN <<<<questions[i], qa[i]>>, <<questions[i] \o "_detail", qa[i]>>>>
            \o answer_items(qa, i + 1)
       ELSE answer_items(qa, i + 1)

\* lines 200-208: the answers dict of process_application
build_answers(selected_country, selected_category, qa) ==
  <<<<"country", selected_country>>, <<"category", Lower(selected_category)>>>>
  \o answer_items(qa, 1)

\* variant: the category is compared as selected, without lower()
post_filter_case_sensitive(docs, selected_country, selected_category) ==
  LET exact(d) == /\ Lower(d.country) = Lower(selected_country)
                  /\ d.category = selected_category
      loose(d) == Lower(d.country) = Lower(selected_country)
  IN IF SelectSeq(docs, exact) # <<>> THEN SelectSeq(docs, exact)
     ELSE SelectSeq(docs, loose)

\* app.py 219-229, 90-100 and 336-346, the same code three times: exact
\* country and category, else country only
post_filter(docs, selected_country, selected_category) ==
  LET exact(d) == /\ Lower(d.country) = Lower(selected_country)
                  /\ Lower(d.category) = Lower(selected_category)
      loose(d) == Lower(d.country) = Lower(selected_country)
  IN IF SelectSeq(docs, exact) # <<>> THEN SelectSeq(docs, exact)
     ELSE SelectSeq(docs, loose)

\* format_prompt: the context branch when there are documents, else the
\* branch that answers from the generative model's own knowledge
format_prompt(answers, docs) ==
  [kind |-> IF docs # <<>> THEN "context" ELSE "knowledge", context |-> docs]

AnswerInputs == {<<>>, <<"yes">>}

\* process_application up to the prompt (lines 198-231)
ProcessApplication(selected_country, selected_category, qa) ==
  /\ pc = "ready"
  /\ host = "app"
  /\ LET answers == build_answers(selected_country, selected_category, qa)
         search_query == QueryOf(selected_country, Lower(selected_category), answers)
     IN \E o \in retrieve(search_query, rules, index, model, DefaultTopK) :
          /\ r_src' = "app"
          /\ r_query' = search_query
          /\ r_rules' = rules
          /\ r_index' = index
          /\ r_topk' = DefaultTopK
          /\ r_text' = o.text
          /\ r_labels' = o.labels
          /\ r_result' = o.result
          /\ r_encCalls' = o.encCalls
          /\ r_searchCalls' = o.searchCalls
          /\ r_filtered' = post_filter(o.result, selected_country, selected_category)
          /\ prompt' = format_prompt(answers,
                          post_filter(o.result, selected_country, selected_category))
  /\ UNCHANGED storeVars

\* app.py 74-78 and 321-325: the rules of the selected country and category
exact_match(docs, selected_country, selected_category) ==
  LET exact(d) == /\ Lower(d.country) = Lower(selected_country)
                  /\ Lower(d.category) = Lower(selected_category)
  IN SelectSeq(docs, exact)

\* the part shared by get_rag_context (74-100) and chat_with_bot (321-346):
\* the rules themselves are filtered first, and retrieve is called only when
\* that finds nothing and an index and a model are held
ContextDocs(site, selected_country, selected_category, answers) ==
  LET pre == exact_match(rules, selected_country, selected_category)
      search_query == QueryOf(selected_country, Lower(selected_category), answers)
  IN /\ r_query' = search_query
     /\ r_topk' = DefaultTopK
     /\ IF pre = <<>> /\ index.present /\ model
          THEN \E o \in retrieve(search_query, rules, index, model, DefaultTopK) :
                 /\ r_src' = site
                 /\ r_rules' = rules
                 /\ r_index' = index
                 /\ r_text' = o.text
                 /\ r_labels' = o.labels
                 /\ r_result' = o.result
                 /\ r_encCalls' = o.encCalls
                 /\ r_searchCalls' = o.searchCalls
                 /\ r_filtered' = post_filter(o.result, selected_country, selected_category)
          ELSE /\ r_src' = "rules_only"
               /\ r_rules' = <<>>
               /\ r_index' = None
               /\ r_text' = ""
               /\ r_labels' = <<>>
               /\ r_result' = <<>>
               /\ r_encCalls' = 0
               /\ r_searchCalls' = 0
               /\ r_filtered' = pre

\* get_rag_context (68-126) with a country and a category selected; the
\* markdown it returns lists r_filtered
GetRagContext(selected_country, selected_category) ==
  /\ pc = "ready"
  /\ host = "app"
  /\ ContextDocs("rag_context", selected_country, selected_category, <<>>)
  /\ prompt' = NoPrompt
  /\ UNCHANGED storeVars

\* chat_with_bot 350-365: the texts of the first two documents are the context
chat_prompt(docs) ==
  [kind |-> IF docs # <<>> THEN "context" ELSE "knowledge",
   context |-> SubSeq(docs, 1, Min(2, Len(docs)))]

ChatMessages == {"fee"}

\* chat_with_bot (314-365) with a message, no file, and a selection made
ChatWithBot(message, selected_country, selected_category) ==
  /\ pc = "ready"
  /\ host = "app"
  /\ ContextDocs("chat", selected_country, selected_category, <<<<"question", message>>>>)
  /\ prompt' = chat_prompt(r_filtered')
  /\ UNCHANGED storeVars

StoreNext ==
  \/ \E c \in {CorpusMissing, CorpusMalformed} \cup {CorpusOf(s) : s \in DocSeqs} :
       EditCorpus(c)
  \/ DeleteCache
  \/ DeleteIndex
  \/ Exit
  \/ StartApp
  \/ \E f \in BOOLEAN : CallDirect(f)
  \/ PrepareModelFails
  \/ PrepareLoadFails
  \/ PrepareHit
  \/ PrepareHitNoIndex
  \/ PrepareMiss
  \/ SaveCacheDone
  \/ IndexOpen
  \/ IndexDone

Next ==
  \/ StoreNext
  \/ \E c \in Countries, g \in {"Student", "Tourist"}, qa \in AnswerInputs :
       ProcessApplication(c, g, qa)
  \/ \E c \in Countries, g \in {"Student", "Tourist"} : GetRagContext(c, g)
  \/ \E c \in Countries, g \in {"Student", "Tourist"}, msg \in ChatMessages :
       ChatWithBot(msg, c, g)

Spec == Init /\ [][Next]_vars

\* ------------------------------------------------- retrieve, called directly
\* retrieve is a function of its arguments: any rules, any index (or None),
\* any query of the app's shape and any top_k >= 1, with a provider handle
RetrieveInit ==
  /\ StoreInit
  /\ corpus = CorpusMissing
  /\ r_src = "pending"
  /\ r_query \in {QueryOf(c, g, <<>>) : c \in Countries, g \in Categories}
  /\ r_rules \in SeqsUpTo(Docs, MaxDocs)
  /\ r_index \in {None} \cup {Some(v) : v \in SeqsUpTo(Vecs, MaxIndex)}
  /\ r_topk \in 1..MaxTopK
  /\ r_text = ""
  /\ r_labels = <<>>
  /\ r_result = <<>>
  /\ r_encCalls = 0
  /\ r_searchCalls = 0
  /\ r_filtered = <<>>
  /\ prompt = NoPrompt

RetrieveDirect ==
  /\ r_src = "pending"
  /\ \E o \in retrieve(r_query, r_rules, r_index, TRUE, r_topk) :
       /\ r_src' = "direct"
       /\ r_text' = o.text
       /\ r_labels' = o.labels
       /\ r_result' = o.result
       /\ r_encCalls' = o.encCalls
       /\ r_searchCalls' = o.searchCalls
  /\ UNCHANGED <<r_query, r_rules, r_index, r_topk, r_filtered, prompt>>
  /\ UNCHANGED storeVars

\* retrieve from line 70 on, for an index object whose search returned the
\* labels r_labels: any positions, in any order, repeated or out of range
LabelsInit ==
  /\ StoreInit
  /\ corpus = CorpusMissing
  /\ r_src = "labels"
  /\ r_query = NoQuery
  /\ r_rules \in SeqsUpTo(Docs, MaxDocs) \ {<<>>}
  /\ r_index = None
  /\ r_topk \in 1..MaxTopK
  /\ r_text = ""
  /\ r_labels \in {I \in SeqsUpTo((-1)..MaxIndex, MaxTopK) : Len(I) = r_topk}
  /\ r_result = <<>>
  /\ r_encCalls = 0
  /\ r_searchCalls = 0
  /\ r_filtered = <<>>
  /\ prompt = NoPrompt

MapLabels ==
  /\ r_src = "labels"
  /\ r_src' = "mapped"
  /\ r_result' = Lookup(r_rules, r_labels)
  /\ r_encCalls' = 1
  /\ r_searchCalls' = 1
  /\ UNCHANGED <<r_query, r_rules, r_index, r_topk, r_text, r_labels, r_filtered, prompt>>
  /\ UNCHANGED storeVars

RetrieveNext == RetrieveDirect \/ MapLabels

SpecRetrieve == (RetrieveInit \/ LabelsInit) /\ [][RetrieveNext]_vars


\* ------------------------------------------------------------------ claims
ReturnedNow == pc = "ready" /\ outcome = "returned"

\* C1: whenever prepare_rag_store returns, the returned index has as many
\* entries as the returned embedding matrix has rows and as there are returned
\* documents; an index whose size disagrees is never served.
C1_IndexMatchesMatrix ==
  ReturnedNow =>
    /\ Len(index.vecs) = Len(embeddings.vecs)
    /\ Len(index.vecs) = Len(rules_rag)

\* C2: the documents the application passes to retrieve are the ordered
\* collection the embedding matrix and the index in use were built from:
\* position i of the index holds the embedding of document i.
C2_RetrieveSeesIndexedDocs ==
  (r_src = "app" /\ r_index.present) =>
    /\ r_rules = rules_rag
    /\ Len(r_index.vecs) = Len(r_rules)
    /\ \A i \in 1..Len(r_rules) : r_index.vecs[i] = encode(r_rules[i].text)

\* C3: a call without force_rebuild that directly follows a returned call
\* without force_rebuild, with no corpus change in between, is a cache hit:
\* it encodes no document and returns the same documents and embeddings.
C3_SecondCallIsCacheHit ==
  (ReturnedNow /\ ~force /\ repeat.present /\ ~repeat.force) =>
    /\ path = "hit"
    /\ encLog = <<>>
    /\ rules_rag = repeat.rules
    /\ embeddings.vecs = repeat.embeddings

C3_Witness ==
  /\ ReturnedNow /\ ~force /\ repeat.present /\ ~repeat.force
  /\ Len(rules_rag) = 2

\* C4: at Ready the returned and the cached documents and embeddings are those
\* of the corpus content this startup read, also without force_rebuild.
C4_CacheFollowsCorpus ==
  ReturnedNow =>
    /\ rules_rag = loaded
    /\ Len(embeddings.vecs) = Len(loaded)
    /\ \A i \in 1..Len(loaded) : embeddings.vecs[i] = encode(loaded[i].text)
    /\ cacheFile.state = "ok"
    /\ cacheFile.rules = loaded

\* C5: a failure inside prepare_rag_store does not end the application: it is
\* ready with no index, every retrieve call returns the empty sequence and
\* process_application builds the prompt that carries no retrieved context.
C5_FailureDegrades ==
  (host = "app" /\ outcome = "raised") =>
    /\ pc = "ready"
    /\ ~index.present
    /\ r_src = "app" =>
         /\ r_result = <<>>
         /\ prompt.kind = "knowledge"
         /\ prompt.context = <<>>

C5_Witness ==
  /\ host = "app" /\ outcome = "raised" /\ pc = "ready"
  /\ r_src = "app"
  /\ cacheSeen = "torn"
  /\ rules # <<>>

\* C6: with no documents or no index, retrieve returns the empty sequence and
\* calls neither the embedding provider nor the index, for any query and top_k.
C6_EmptyWithoutDocsOrIndex ==
  (r_src = "direct" /\ (r_rules = <<>> \/ ~r_index.present)) =>
    /\ r_result = <<>>
    /\ r_encCalls = 0
    /\ r_searchCalls = 0

C6_Witness ==
  /\ r_src = "direct"
  /\ r_rules # <<>>
  /\ ~r_index.present
  /\ r_topk = MaxTopK

\* C7: a startup that meets a cache file it cannot deserialize embeds the
\* corpus it loaded again, overwrites the cache and is ready with an index.
C7_CorruptCacheRebuilds ==
  (cacheSeen = "torn" /\ loaded # <<>>) =>
    /\ outcome = "returned"
    /\ index.present
    /\ encLog = encoded_texts(loaded)
    /\ cacheFile.state = "ok"
    /\ cacheFile.rules = loaded

\* C8: at every point of a cache save, a crash in the middle included, the
\* cache file is absent or a complete entry, never a partly written one.
C8_CacheSaveAtomic == cacheFile.state # "torn"

\* C9: a call with force_rebuild, or one that found no cache file, over a
\* non-empty corpus of M documents returns, having encoded every text in
\* document order into a matrix of M rows; the cache then holds that matrix
\* with those M documents and the persisted index, whatever it was, has size M.
C9_RebuildCoversCorpus ==
  (outcome \in {"returned", "raised"} /\ loaded # <<>>
     /\ (force \/ cacheSeen = "absent")) =>
    /\ ReturnedNow
    /\ encLog = [i \in 1..Len(loaded) |-> loaded[i].text]
    /\ Len(embeddings.vecs) = Len(loaded)
    /\ \A i \in 1..Len(loaded) : embeddings.vecs[i] = encode(loaded[i].text)
    /\ rules_rag = loaded
    /\ cacheFile = CacheOf(embeddings.vecs, loaded)
    /\ indexFile.state = "ok"
    /\ Len(indexFile.vecs) = Len(loaded)
    /\ Len(index.vecs) = Len(loaded)

\* a forced rebuild replaced a persisted index of size N after the corpus grew to N+1
C9_Witness ==
  /\ ReturnedNow /\ force
  /\ replaced.state = "ok"
  /\ Len(replaced.vecs) + 1 = Len(loaded)
  /\ Len(indexFile.vecs) = Len(loaded)

\* C10: with N > 0 documents and an index of size N, retrieve returns at most
\* top_k documents; with top_k > N it returns exactly N documents, the ones at
\* the N positions the index returned, by ascending distance, and nothing else.
C10_TopKBeyondCollection ==
  (r_src = "direct" /\ r_rules # <<>> /\ r_index.present
     /\ Len(r_index.vecs) = Len(r_rules)) =>
    LET N == Len(r_rules)
        qv == encode(QueryText(r_query))
    IN /\ Len(r_result) <= r_topk
       /\ r_topk > N =>
            /\ Len(r_result) = N
            /\ \A i \in 1..N :
                 /\ r_labels[i] \in 0..(N - 1)
                 /\ r_result[i] = r_rules[r_labels[i] + 1]
            /\ \A i, j \in 1..N :
                 i < j => /\ r_labels[i] # r_labels[j]
                          /\ L2(r_index.vecs[r_labels[i] + 1], qv)
                               <= L2(r_index.vecs[r_labels[j] + 1], qv)

C10_Witness ==
  /\ r_src = "direct"
  /\ Len(r_rules) = 2
  /\ r_index.present /\ Len(r_index.vecs) = 2
  /\ r_topk = 3
  /\ Len(r_result) = 2


\* C11: when the corpus file is missing or malformed, the application's load
\* of it falls back to an empty document collection and the application goes
\* on starting, with no rules.
C11_CorpusFallsBackToEmpty ==
  (host = "app" /\ corpus.state # "ok") =>
    /\ pc \in {"prep", "ready"}
    /\ outcome # "uncaught"
    /\ rules = <<>>


\* the keys process_application adds for its own bookkeeping
IsDetailKey(k) == \E i \in 1..Len(questions) : k = questions[i] \o "_detail"

\* the values of the free-text answers of a query, bookkeeping items left out
RECURSIVE FreeTextValues(_)
FreeTextValues(items) ==
  IF items = <<>> THEN ""
  ELSE IF items[1][1] \in {"country", "category"} \/ IsDetailKey(items[1][1])
       THEN FreeTextValues(Tail(items))
       ELSE " " \o items[1][2] \o FreeTextValues(Tail(items))

\* C12: the text retrieve hands to the embedding provider is one string made
\* of the query's country, its category and its free-text answer values, and
\* of nothing else (no "_detail" entry, no second country or category).
C12_EncodedTextIsFormattedQuery ==
  (r_src = "app" /\ r_encCalls = 1) =>
    r_text = r_query[1][2] \o " " \o r_query[2][2] \o FreeTextValues(r_query[3][2])


\* C13: a call without force_rebuild that hits the cache and finds the
\* persisted index absent, or cannot restore it, returns with an index built
\* from the cached embeddings and persisted, having encoded no document and
\* with the cache entry as it read it.
C13_HitRebuildsIndex ==
  (cacheSeen = "ok" /\ indexSeen \in {"absent", "torn"}
     /\ outcome \in {"returned", "raised"}) =>
    /\ ReturnedNow
    /\ encLog = <<>>
    /\ index.vecs = cacheFile.embeddings
    /\ indexFile = IndexOf(cacheFile.embeddings)
    /\ cacheFile = CacheOf(embeddings.vecs, rules_rag)


\* C14: retrieve's result is the documents at the positions the index search
\* returned that lie in 0..len(documents)-1, in the order returned: positions
\* out of range, -1 included, are skipped and repeated positions are kept.
C14_ResultFollowsLabels ==
  (r_src \in {"mapped", "direct"} /\ r_searchCalls = 1) =>
    LET InRange(p) == 0 <= p /\ p < Len(r_rules)
        kept == SelectSeq(r_labels, InRange)
    IN r_result = [k \in 1..Len(kept) |-> r_rules[kept[k] + 1]]

\* a repeated position and a position out of range among the labels
C14_Witness ==
  /\ r_src = "mapped"
  /\ \E i, j \in 1..Len(r_labels) :
       i < j /\ r_labels[i] = r_labels[j] /\ 0 <= r_labels[i] /\ r_labels[i] < Len(r_rules)
  /\ \E i \in 1..Len(r_labels) : r_labels[i] < 0 \/ r_labels[i] >= Len(r_rules)
  /\ Len(r_result) = 2


\* C15: what the caller-side filter keeps of the retrieved documents, in
\* process_application, get_rag_context and chat_with_bot: in retrieval order,
\* exactly the retrieved documents of the selected country and category
\* (compared without case) when there is one, otherwise exactly the retrieved
\* documents of the selected country; nothing of another country, nothing
\* that was not retrieved.
C15_PostFilterKeeps ==
  (r_src \in {"app", "rag_context", "chat"}) =>
    LET c == r_query[1][2]
        g == r_query[2][2]
        both == {i \in 1..Len(r_result) :
                   /\ Lower(r_result[i].country) = Lower(c)
                   /\ Lower(r_result[i].category) = Lower(g)}
        land == {i \in 1..Len(r_result) : Lower(r_result[i].country) = Lower(c)}
        keep == IF both # {} THEN both ELSE land
        Nth(k) == CHOOSE i \in keep : Cardinality({j \in keep : j <= i}) = k
    IN /\ Len(r_filtered) = Cardinality(keep)
       /\ \A k \in 1..Len(r_filtered) :
            /\ r_filtered[k] = r_result[Nth(k)]
            /\ Lower(r_filtered[k].country) = Lower(c)

\* two documents of the country retrieved, one of them of the category
C15_Witness ==
  /\ r_src = "app"
  /\ Len(r_result) = 2
  /\ Len(r_filtered) = 1
  /\ Lower(r_filtered[1].category) = r_query[2][2]


\* C16: the program writes the cache file only on the embed path (no cache
\* found, or force_rebuild), and what the write leaves when it completes is a
\* whole new entry, the embeddings of every loaded rule with those rules,
\* never a patch of the old one; a cache-hit startup, with the index file
\* present or absent, and every retrieve call leave the cache file as it
\* was, and a retrieve call also leaves the corpus, the index file and the
\* documents, matrix and index held in memory as they were.
C16_CacheWrittenOnlyOnEmbedPath ==
  [][ /\ (pc # "down" /\ cacheFile' # cacheFile) =>
           /\ path' = "miss"
           /\ force \/ cacheSeen' = "absent"
           /\ \/ pc = "prep" /\ cacheFile' = CacheTorn
              \/ pc = "saving"
                   /\ cacheFile' = CacheOf(build_embeddings(loaded'), loaded')
      /\ (pc = "ready" /\ pc' = "ready" /\ retrVars' # retrVars) =>
           UNCHANGED <<files, held>>
    ]_vars

\* a cache-hit startup that had to build the index has returned, the cache
\* file is there, and a retrieve call has been made since
C16_Witness ==
  /\ path = "hit"
  /\ indexSeen = "absent"
  /\ ReturnedNow
  /\ cacheFile.state = "ok"
  /\ r_src \in {"app", "rag_context", "chat"}
  /\ r_searchCalls = 1

====
